---- MODULE Spec2Model ----
(***************************************************************************)
(* The validation / approval workflow of the ministry backend:             *)
(* routes/validations.ts (POST /, PUT /:id/approve, PUT /:id/reject) over  *)
(* the tables projects, validation_requests and notifications.             *)
(*                                                                         *)
(* A handler is a sequence of awaited store calls.  Each read or write of  *)
(* projects and validation_requests is one atomic step and the handler code *)
(* between two awaits runs with it; several handlers may be in flight and  *)
(* their steps interleave freely.  A handler that returns before its first *)
(* write (403, 404, 400) is a single step.  Two kinds of store call are    *)
(* taken in the step of the call before them, in the handler's order,      *)
(* because they commute with every step of every other handler: reads of   *)
(* tables no handler of this model writes (users; the existence and the    *)
(* department of a project), and inserts into notifications, which no      *)
(* handler reads.                                                          *)
(***************************************************************************)
EXTENDS Integers, Sequences, FiniteSets, TLC

\* Number of handler invocations in one behaviour.
MaxCalls == 3

-----------------------------------------------------------------------------
(* JavaScript values and JSON text *)

JsUndef == [t |-> "undefined", n |-> 0, s |-> ""]
JsNull == [t |-> "null", n |-> 0, s |-> ""]
JsNum(n) == [t |-> "number", n |-> n, s |-> ""]
JsStr(s) == [t |-> "string", n |-> 0, s |-> s]

\* A plain object: its own properties in insertion order.
JsObject(props) == [t |-> "object", props |-> props]
NoObject == [t |-> "undefined", props |-> <<>>]

Prop(k, v) == [k |-> k, v |-> v]

\* JS truthiness of a primitive.
Truthy(v) ==
  CASE v.t = "undefined" -> FALSE
    [] v.t = "null" -> FALSE
    [] v.t = "number" -> v.n # 0
    [] v.t = "string" -> v.s # ""
    [] OTHER -> TRUE

\* obj[k]: the property's value, undefined when the object has none.
GetProp(obj, k) ==
  LET idx == {i \in 1..Len(obj.props) : obj.props[i].k = k}
  IN IF idx = {} THEN JsUndef
     ELSE obj.props[CHOOSE i \in idx : \A j \in idx : j <= i].v

\* JSON text is a sequence of tokens: "{", then a key token and a value
\* token for each property, then "}".
Tok(kind, v) == [kind |-> kind, n |-> v.n, s |-> v.s]
LBrace == [kind |-> "{", n |-> 0, s |-> ""]
RBrace == [kind |-> "}", n |-> 0, s |-> ""]

RECURSIVE StringifyProps(_)
StringifyProps(props) ==
  IF props = <<>> THEN <<>>
  ELSE LET p == Head(props)
       IN (IF p.v.t = "undefined" THEN <<>>
           ELSE <<Tok("key", JsStr(p.k)), Tok(p.v.t, p.v)>>)
          \o StringifyProps(Tail(props))

\* JSON.stringify of an object: a property whose value is undefined is dropped.
JSONStringify(obj) == <<LBrace>> \o StringifyProps(obj.props) \o <<RBrace>>

TokValue(tok) ==
  CASE tok.kind = "number" -> JsNum(tok.n)
    [] tok.kind = "string" -> JsStr(tok.s)
    [] OTHER -> JsNull

\* JSON.parse of a text JSONStringify wrote.
JSONParse(text) ==
  JsObject([i \in 1..((Len(text) - 2) \div 2) |->
              Prop(text[2 * i].s, TokValue(text[2 * i + 1]))])

-----------------------------------------------------------------------------
(* Tables the workflow only reads *)

NoDepartment == "null"

Users ==
  [u_min |-> [role |-> "MINISTER", is_active |-> TRUE, department_id |-> NoDepartment],
   u_sup |-> [role |-> "SUPER_ADMIN", is_active |-> FALSE, department_id |-> NoDepartment],
   u_adm |-> [role |-> "ADMIN_DEPARTMENT", is_active |-> TRUE, department_id |-> "d1"],
   u_agt |-> [role |-> "AGENT", is_active |-> TRUE, department_id |-> "d1"]]

UserIds == DOMAIN Users

UserRole == {"SUPER_ADMIN", "ADMIN_DEPARTMENT", "MINISTER", "PRIMATURE", "PRESIDENCY", "AGENT"}

ProjectStatus ==
  {"PENDING_VALIDATION", "IN_PROGRESS", "COMPLETED", "DELAYED", "SUSPENDED", "BLOCKED"}

ValidationRequestType ==
  {"PROJECT_APPROVAL", "BUDGET_INCREASE", "UNBLOCK_REQUEST", "STATUS_CHANGE"}

ValidationRequestStatus == {"PENDING", "APPROVED", "REJECTED"}

\* Variant: department admins decide too.
APPROVER_ROLES_WithDepartmentAdmins ==
  {"MINISTER", "PRIMATURE", "PRESIDENCY", "SUPER_ADMIN", "ADMIN_DEPARTMENT"}

APPROVER_ROLES == {"MINISTER", "PRIMATURE", "PRESIDENCY", "SUPER_ADMIN"}

APPROVAL_HIERARCHY ==
  [PROJECT_APPROVAL |-> {"MINISTER", "PRIMATURE", "PRESIDENCY", "SUPER_ADMIN"},
   BUDGET_INCREASE |-> {"MINISTER", "PRIMATURE", "PRESIDENCY", "SUPER_ADMIN"},
   STATUS_CHANGE |-> {"MINISTER", "PRIMATURE", "PRESIDENCY", "SUPER_ADMIN"},
   UNBLOCK_REQUEST |-> {"MINISTER", "PRIMATURE", "PRESIDENCY", "SUPER_ADMIN"}]

getApproverRolesForType(type) ==
  IF type \in DOMAIN APPROVAL_HIERARCHY THEN APPROVAL_HIERARCHY[type] ELSE APPROVER_ROLES

-----------------------------------------------------------------------------
(* Columns *)

\* SQL NULL of a text column, of a timestamp column, of the metadata column
\* (JSON.stringify never writes an empty text).
NullText == "null"
NullTime == 0
NullJson == <<>>


Absent == "undefined"

\* The row POST / inserts (approver_id, response_comment and responded_at
\* are not given and take the column default).
NewValidationRequest(id, type, project_id, requester_id, comment, metadata, now) ==
  [id |-> id,
   type |-> type,
   status |-> "PENDING",
   project_id |-> project_id,
   requester_id |-> requester_id,
   approver_id |-> NullText,
   comment |-> comment,
   response_comment |-> NullText,
   metadata |-> metadata,
   created_at |-> now,
   updated_at |-> now,
   responded_at |-> NullTime]

-----------------------------------------------------------------------------
(* Inputs *)

\* metadata of a request body (z.any().optional()).
Metadatas ==
  {NoObject,
   JsObject(<<>>),
   JsObject(<<Prop("newBudget", JsNum(0))>>),
   JsObject(<<Prop("newBudget", JsNum(2))>>),
   JsObject(<<Prop("newStatus", JsStr("SUSPENDED"))>>),
   JsObject(<<Prop("newStatus", JsStr(""))>>)}

\* Bodies of POST /validations: every type without metadata, BUDGET_INCREASE
\* with an object that has or lacks newBudget, STATUS_CHANGE with a newStatus.
CreateValidationRequests ==
  {b \in [type : ValidationRequestType, comment : {"c"}, metadata : Metadatas] :
     \/ b.metadata = NoObject
     \/ b.type = "BUDGET_INCREASE" /\ GetProp(b.metadata, "newStatus") = JsUndef
     \/ b.type = "STATUS_CHANGE" /\ GetProp(b.metadata, "newStatus") # JsUndef}

\* Callers of POST /validations.
Requesters == {"u_adm"}

\* Callers of PUT /:id/approve and PUT /:id/reject, each with the body
\* (responseComment is optional) it sends.
Deciders ==
  {[user |-> "u_min", responseComment |-> "ok"],
   [user |-> "u_sup", responseComment |-> Absent],
   [user |-> "u_adm", responseComment |-> "ok"],
   [user |-> "u_agt", responseComment |-> Absent]}

-----------------------------------------------------------------------------
(* State *)

VARIABLES
  projects,             \* table projects: id -> row
  validation_requests,  \* table validation_requests: id -> row
  notifications,        \* table notifications: set of rows
  calls,                \* handlers suspended at an await, with their locals
  clock,                \* the value the next new Date() returns
  nCalls,               \* handlers invoked so far
  resp,                 \* the HTTP response the latest step sent, if any
  log                   \* history: the writes made on behalf of each request

vars == <<projects, validation_requests, notifications, calls, clock, nCalls, resp, log>>

tables == <<projects, validation_requests, notifications>>

InitialBudget == JsNum(1)

\* c.json(..., status): the handler returns.
\* data is the array the body carries; an error body and the bodies of the
\* writing handlers, which the properties do not read, carry none.
Response(op, user, id, code) ==
  [op |-> op, user |-> user, id |-> id, code |-> code, data |-> <<>>]
NoResponse == Response("none", NullText, 0, "NONE")

\* c.json({ data }): 200 with the rows read.
DataResponse(op, user, id, data) == [Response(op, user, id, "OK") EXCEPT !.data = data]

\* Two projects of two departments are in the store, the first one waiting
\* for its validation or blocked; every other row is made by the handlers.
Init ==
  /\ \E status \in {"PENDING_VALIDATION", "BLOCKED"} :
       projects =
         <<[id |-> 1, status |-> status, budget |-> InitialBudget,
            department_id |-> "d1", updated_at |-> NullTime],
           [id |-> 2, status |-> "IN_PROGRESS", budget |-> InitialBudget,
            department_id |-> "d2", updated_at |-> NullTime]>>
  /\ validation_requests = <<>>
  /\ notifications = {}
  /\ calls = {}
  /\ clock = 1
  /\ nCalls = 0
  /\ resp = NoResponse
  /\ log = {}

\* A handler's locals while it is suspended.
Call(op, pc, now, user, id, responseComment, validation, project_status) ==
  [op |-> op, pc |-> pc, now |-> now, user |-> user, id |-> id,
   responseComment |-> responseComment, validation |-> validation,
   project_status |-> project_status]

\* The handler's next await.
Goto(c, pc) == [c EXCEPT !.pc = pc]

-----------------------------------------------------------------------------
(* Notifier *)

\* Variant: the users who are not active are notified too.
notifyApprovers_Inactive(validationRequest, now, err) ==
  LET approverRoles == getApproverRolesForType(validationRequest.type)
      approvers == {u \in UserIds : Users[u].role \in approverRoles}
  IN IF err \in {"users", "notifications"} THEN {}
     ELSE {[id |-> <<now, u>>,
            type |-> "VALIDATION_REQUEST",
            title |-> "Nouvelle demande de validation",
            user_id |-> u,
            link |-> validationRequest.id,
            is_read |-> FALSE,
            created_at |-> now] : u \in approvers}

\* notifyApprovers: one VALIDATION_REQUEST row for each active user whose
\* role may approve the type; nothing when fetching them or the insert fails.
notifyApprovers(validationRequest, now, err) ==
  LET approverRoles == getApproverRolesForType(validationRequest.type)
      approvers == {u \in UserIds : Users[u].role \in approverRoles /\ Users[u].is_active}
  IN IF err \in {"users", "notifications"} THEN {}
     ELSE {[id |-> <<now, u>>,
            type |-> "VALIDATION_REQUEST",
            title |-> "Nouvelle demande de validation",
            user_id |-> u,
            link |-> validationRequest.id,
            is_read |-> FALSE,
            created_at |-> now] : u \in approvers}

\* Variant: the row is for the approver.
notifyRequester_ToApprover(validationRequest, now, approved, err) ==
  IF err = "notifications" THEN {}
  ELSE {[id |-> <<now, validationRequest.approver_id>>,
         type |-> "VALIDATION_RESPONSE",
         title |-> IF approved THEN "Demande approuvee" ELSE "Demande rejetee",
         user_id |-> validationRequest.approver_id,
         link |-> validationRequest.id,
         is_read |-> FALSE,
         created_at |-> now]}

\* notifyRequester: one VALIDATION_RESPONSE row for the requester.
notifyRequester(validationRequest, now, approved, err) ==
  IF err = "notifications" THEN {}
  ELSE {[id |-> <<now, validationRequest.requester_id>>,
         type |-> "VALIDATION_RESPONSE",
         title |-> IF approved THEN "Demande approuvee" ELSE "Demande rejetee",
         user_id |-> validationRequest.requester_id,
         link |-> validationRequest.id,
         is_read |-> FALSE,
         created_at |-> now]}

-----------------------------------------------------------------------------
(* POST /api/validations *)

\* Variant: a department admin submits for any project.
SubmitPrecondition_AnyDepartment(user, projectId, err) ==
  IF err = "projects" \/ projectId \notin DOMAIN projects THEN "NOT_FOUND"
  ELSE "OK"

\* The checks POST /validations makes before it writes: the project must
\* exist (a failed fetch reads as a missing project) and a department admin
\* must own it.
SubmitPrecondition(user, projectId, err) ==
  IF err = "projects" \/ projectId \notin DOMAIN projects THEN "NOT_FOUND"
  ELSE IF /\ Users[user].role = "ADMIN_DEPARTMENT"
          /\ Users[user].department_id # projects[projectId].department_id
  THEN "FORBIDDEN"
  ELSE "OK"

\* Variant: notifyApprovers is called before the result of the insert is tested.
Submit_NotifyBeforeTest(user, body, projectId, err) ==
  /\ nCalls < MaxCalls
  /\ nCalls' = nCalls + 1
  /\ UNCHANGED <<projects, calls, log>>
  /\ IF SubmitPrecondition(user, projectId, err) # "OK"
     THEN /\ resp' = Response("submit", user, projectId,
                              SubmitPrecondition(user, projectId, err))
          /\ UNCHANGED <<validation_requests, notifications, clock>>
     ELSE IF err = "validation_requests"
     THEN /\ resp' = Response("submit", user, projectId, "DATABASE_ERROR")
          /\ notifications' =
               notifications \cup
                 notifyApprovers(
                   NewValidationRequest(Len(validation_requests) + 1, body.type, projectId,
                                        user, body.comment, NullJson, clock),
                   clock + 1, "none")
          /\ clock' = clock + 2
          /\ UNCHANGED validation_requests
     ELSE LET validationId == Len(validation_requests) + 1
              validation ==
                NewValidationRequest(
                  validationId, body.type, projectId, user, body.comment,
                  IF body.metadata.t = "object" THEN JSONStringify(body.metadata)
                  ELSE NullJson,
                  clock)
          IN /\ validation_requests' = Append(validation_requests, validation)
             /\ notifications' =
                  notifications \cup notifyApprovers(validation, clock + 1, err)
             /\ clock' = clock + 2
             /\ resp' = Response("submit", user, projectId, "CREATED")

\* The checks; then the insert, and after it notifyApprovers and 201.
Submit(user, body, projectId, err) ==
  /\ nCalls < MaxCalls
  /\ nCalls' = nCalls + 1
  /\ UNCHANGED <<projects, calls, log>>
  /\ IF SubmitPrecondition(user, projectId, err) # "OK"
     THEN /\ resp' = Response("submit", user, projectId,
                              SubmitPrecondition(user, projectId, err))
          /\ UNCHANGED <<validation_requests, notifications, clock>>
     ELSE IF err = "validation_requests"
     THEN /\ resp' = Response("submit", user, projectId, "DATABASE_ERROR")
          /\ UNCHANGED <<validation_requests, notifications, clock>>
     ELSE LET validationId == Len(validation_requests) + 1
              validation ==
                NewValidationRequest(
                  validationId, body.type, projectId, user, body.comment,
                  IF body.metadata.t = "object" THEN JSONStringify(body.metadata)
                  ELSE NullJson,
                  clock)
          IN /\ validation_requests' = Append(validation_requests, validation)
             /\ notifications' =
                  notifications \cup notifyApprovers(validation, clock + 1, err)
             /\ clock' = clock + 2
             /\ resp' = Response("submit", user, projectId, "CREATED")

-----------------------------------------------------------------------------
(* PUT /api/validations/:id/approve and /reject *)

\* Variant: no check of the status.
DecidePrecondition_NoStatusCheck(user, id, err) ==
  IF Users[user].role \notin APPROVER_ROLES THEN "FORBIDDEN"
  ELSE IF err = "validation_requests" \/ id \notin DOMAIN validation_requests
  THEN "NOT_FOUND"
  ELSE "PENDING"

\* Variant: the fetch before the check of the role.
DecidePrecondition_FetchFirst(user, id, err) ==
  IF err = "validation_requests" \/ id \notin DOMAIN validation_requests
  THEN "NOT_FOUND"
  ELSE IF Users[user].role \notin APPROVER_ROLES THEN "FORBIDDEN"
  ELSE IF validation_requests[id].status # "PENDING" THEN "ALREADY_PROCESSED"
  ELSE "PENDING"

\* The checks both handlers make before they write, in the order they make
\* them; "PENDING" lets the handler go on.  A failed fetch reads as a
\* missing row.
DecidePrecondition(user, id, err) ==
  IF Users[user].role \notin APPROVER_ROLES THEN "FORBIDDEN"
  ELSE IF err = "validation_requests" \/ id \notin DOMAIN validation_requests
  THEN "NOT_FOUND"
  ELSE IF validation_requests[id].status # "PENDING" THEN "ALREADY_PROCESSED"
  ELSE "PENDING"

NoUpdate == [column |-> "none", status |-> "", budget |-> JsUndef]

\* Variant: STATUS_CHANGE is applied to a project in progress only.
ProjectUpdate_StatusChangeInProgress(validation, project_status) ==
  IF validation.type = "PROJECT_APPROVAL"
  THEN IF project_status = "PENDING_VALIDATION"
       THEN [column |-> "status", status |-> "IN_PROGRESS", budget |-> JsUndef]
       ELSE NoUpdate
  ELSE IF validation.type = "BUDGET_INCREASE" /\ validation.metadata # NullJson
  THEN LET metadata == JSONParse(validation.metadata)
       IN IF GetProp(metadata, "newBudget") # JsUndef
          THEN [column |-> "budget", status |-> "", budget |-> GetProp(metadata, "newBudget")]
          ELSE NoUpdate
  ELSE IF /\ validation.type = "STATUS_CHANGE" /\ validation.metadata # NullJson
          /\ project_status = "IN_PROGRESS"
  THEN LET metadata == JSONParse(validation.metadata)
       IN IF Truthy(GetProp(metadata, "newStatus"))
          THEN [column |-> "status", status |-> GetProp(metadata, "newStatus").s,
                budget |-> JsUndef]
          ELSE NoUpdate
  ELSE IF validation.type = "UNBLOCK_REQUEST"
  THEN IF project_status = "BLOCKED"
       THEN [column |-> "status", status |-> "IN_PROGRESS", budget |-> JsUndef]
       ELSE NoUpdate
  ELSE NoUpdate

\* Variant: PROJECT_APPROVAL writes the status whatever the project's status is.
ProjectUpdate_UnguardedApproval(validation, project_status) ==
  IF validation.type = "PROJECT_APPROVAL"
  THEN [column |-> "status", status |-> "IN_PROGRESS", budget |-> JsUndef]
  ELSE IF validation.type = "BUDGET_INCREASE" /\ validation.metadata # NullJson
  THEN LET metadata == JSONParse(validation.metadata)
       IN IF GetProp(metadata, "newBudget") # JsUndef
          THEN [column |-> "budget", status |-> "", budget |-> GetProp(metadata, "newBudget")]
          ELSE NoUpdate
  ELSE IF validation.type = "STATUS_CHANGE" /\ validation.metadata # NullJson
  THEN LET metadata == JSONParse(validation.metadata)
       IN IF Truthy(GetProp(metadata, "newStatus"))
          THEN [column |-> "status", status |-> GetProp(metadata, "newStatus").s,
                budget |-> JsUndef]
          ELSE NoUpdate
  ELSE IF validation.type = "UNBLOCK_REQUEST"
  THEN IF project_status = "BLOCKED"
       THEN [column |-> "status", status |-> "IN_PROGRESS", budget |-> JsUndef]
       ELSE NoUpdate
  ELSE NoUpdate

\* Variant: newBudget is tested for truth, as newStatus is.
ProjectUpdate_TruthyBudget(validation, project_status) ==
  IF validation.type = "PROJECT_APPROVAL"
  THEN IF project_status = "PENDING_VALIDATION"
       THEN [column |-> "status", status |-> "IN_PROGRESS", budget |-> JsUndef]
       ELSE NoUpdate
  ELSE IF validation.type = "BUDGET_INCREASE" /\ validation.metadata # NullJson
  THEN LET metadata == JSONParse(validation.metadata)
       IN IF Truthy(GetProp(metadata, "newBudget"))
          THEN [column |-> "budget", status |-> "", budget |-> GetProp(metadata, "newBudget")]
          ELSE NoUpdate
  ELSE IF validation.type = "STATUS_CHANGE" /\ validation.metadata # NullJson
  THEN LET metadata == JSONParse(validation.metadata)
       IN IF Truthy(GetProp(metadata, "newStatus"))
          THEN [column |-> "status", status |-> GetProp(metadata, "newStatus").s,
                budget |-> JsUndef]
          ELSE NoUpdate
  ELSE IF validation.type = "UNBLOCK_REQUEST"
  THEN IF project_status = "BLOCKED"
       THEN [column |-> "status", status |-> "IN_PROGRESS", budget |-> JsUndef]
       ELSE NoUpdate
  ELSE NoUpdate

\* The update of the projects row that approving `validation` asks for;
\* project_status is validation.projects.status as the handler fetched it.
ProjectUpdate(validation, project_status) ==
  IF validation.type = "PROJECT_APPROVAL"
  THEN IF project_status = "PENDING_VALIDATION"
       THEN [column |-> "status", status |-> "IN_PROGRESS", budget |-> JsUndef]
       ELSE NoUpdate
  ELSE IF validation.type = "BUDGET_INCREASE" /\ validation.metadata # NullJson
  THEN LET metadata == JSONParse(validation.metadata)
       IN IF GetProp(metadata, "newBudget") # JsUndef
          THEN [column |-> "budget", status |-> "", budget |-> GetProp(metadata, "newBudget")]
          ELSE NoUpdate
  ELSE IF validation.type = "STATUS_CHANGE" /\ validation.metadata # NullJson
  THEN LET metadata == JSONParse(validation.metadata)
       IN IF Truthy(GetProp(metadata, "newStatus"))
          THEN [column |-> "status", status |-> GetProp(metadata, "newStatus").s,
                budget |-> JsUndef]
          ELSE NoUpdate
  ELSE IF validation.type = "UNBLOCK_REQUEST"
  THEN IF project_status = "BLOCKED"
       THEN [column |-> "status", status |-> "IN_PROGRESS", budget |-> JsUndef]
       ELSE NoUpdate
  ELSE NoUpdate

\* Variant: the write of a budget starts the project.
UpdateProject_BudgetStartsProject(row, update, now) ==
  CASE update.column = "status" ->
         [row EXCEPT !.status = update.status, !.updated_at = now]
    [] update.column = "budget" ->
         [row EXCEPT !.budget = update.budget, !.status = "IN_PROGRESS",
                     !.updated_at = now]
    [] OTHER -> row

\* Variant: only the budget is written.
UpdateProject_BudgetOnly(row, update, now) ==
  IF update.column = "budget"
  THEN [row EXCEPT !.budget = update.budget, !.updated_at = now]
  ELSE [row EXCEPT !.updated_at = now]

\* supabase.from("projects").update({...}).eq("id", project_id) on one row.
UpdateProject(row, update, now) ==
  CASE update.column = "status" ->
         [row EXCEPT !.status = update.status, !.updated_at = now]
    [] update.column = "budget" ->
         [row EXCEPT !.budget = update.budget, !.updated_at = now]
    [] OTHER -> row

\* Variant: the decision overwrites the comment of the requester.
UpdateValidation_ClearsComment(row, status, user, responseComment, now) ==
  [row EXCEPT !.status = status,
              !.approver_id = user,
              !.comment = IF responseComment = Absent THEN NullText ELSE responseComment,
              !.response_comment = IF responseComment = Absent THEN @ ELSE responseComment,
              !.responded_at = now,
              !.updated_at = now]

\* Variant: responded_at is not sent.
UpdateValidation_NoRespondedAt(row, status, user, responseComment, now) ==
  [row EXCEPT !.status = status,
              !.approver_id = user,
              !.response_comment = IF responseComment = Absent THEN @ ELSE responseComment,
              !.updated_at = now]

\* supabase.from("validation_requests").update({status, approver_id,
\* response_comment, responded_at, updated_at}) on one row; a property that
\* is undefined is not sent.
UpdateValidation(row, status, user, responseComment, now) ==
  [row EXCEPT !.status = status,
              !.approver_id = user,
              !.response_comment = IF responseComment = Absent THEN @ ELSE responseComment,
              !.responded_at = now,
              !.updated_at = now]

\* Up to the status check of approve: role, fetch (with projects.status), status.
Approve(user, id, responseComment, err) ==
  /\ nCalls < MaxCalls
  /\ nCalls' = nCalls + 1
  /\ UNCHANGED <<tables, log>>
  /\ LET code == DecidePrecondition(user, id, err)
     IN IF code # "PENDING"
        THEN /\ resp' = Response("approve", user, id, code)
             /\ UNCHANGED <<calls, clock>>
        ELSE LET validation == validation_requests[id]
                 project_status == projects[validation.project_id].status
                 pc == IF ProjectUpdate(validation, project_status) = NoUpdate
                       THEN "request" ELSE "project"
             IN /\ calls' = calls \cup
                     {Call("approve", pc, clock, user, id, responseComment,
                           validation, project_status)}
                /\ clock' = clock + 1
                /\ resp' = NoResponse

\* The update of the project; its error is logged and the handler goes on.
ApproveProject(c, err) ==
  /\ c \in calls /\ c.op = "approve" /\ c.pc = "project"
  /\ IF err # "projects"
     THEN /\ projects' =
               [projects EXCEPT ![c.validation.project_id] =
                  UpdateProject(@, ProjectUpdate(c.validation, c.project_status), c.now)]
          /\ log' = log \cup {[table |-> "projects", request |-> c.id, by |-> c.now]}
     ELSE UNCHANGED <<projects, log>>
  /\ calls' = (calls \ {c}) \cup {Goto(c, "request")}
  /\ resp' = NoResponse
  /\ UNCHANGED <<validation_requests, notifications, clock, nCalls>>

\* Variant: the error of notifyRequester is returned to the caller.
ApproveRequest_NotifyErrorReturned(c, err) ==
  /\ c \in calls /\ c.op = "approve" /\ c.pc = "request"
  /\ calls' = calls \ {c}
  /\ UNCHANGED <<projects, nCalls>>
  /\ IF err = "validation_requests"
     THEN /\ resp' = Response("approve", c.user, c.id, "DATABASE_ERROR")
          /\ UNCHANGED <<validation_requests, notifications, clock, log>>
     ELSE LET updatedValidation ==
                UpdateValidation(validation_requests[c.id], "APPROVED", c.user,
                                 c.responseComment, c.now)
          IN /\ validation_requests' = [validation_requests EXCEPT ![c.id] = updatedValidation]
             /\ log' = log \cup
                  {[table |-> "validation_requests", request |-> c.id, by |-> c.now]}
             /\ notifications' =
                  notifications \cup notifyRequester(updatedValidation, clock, TRUE, err)
             /\ clock' = clock + 1
             /\ resp' = Response("approve", c.user, c.id,
                                 IF err = "notifications" THEN "DATABASE_ERROR" ELSE "OK")

\* The update of the request to APPROVED, by id; then notifyRequester and 200.
ApproveRequest(c, err) ==
  /\ c \in calls /\ c.op = "approve" /\ c.pc = "request"
  /\ calls' = calls \ {c}
  /\ UNCHANGED <<projects, nCalls>>
  /\ IF err = "validation_requests"
     THEN /\ resp' = Response("approve", c.user, c.id, "DATABASE_ERROR")
          /\ UNCHANGED <<validation_requests, notifications, clock, log>>
     ELSE LET updatedValidation ==
                UpdateValidation(validation_requests[c.id], "APPROVED", c.user,
                                 c.responseComment, c.now)
          IN /\ validation_requests' = [validation_requests EXCEPT ![c.id] = updatedValidation]
             /\ log' = log \cup
                  {[table |-> "validation_requests", request |-> c.id, by |-> c.now]}
             /\ notifications' =
                  notifications \cup notifyRequester(updatedValidation, clock, TRUE, err)
             /\ clock' = clock + 1
             /\ resp' = Response("approve", c.user, c.id, "OK")

\* Up to the status check of reject: role, fetch, status.
Reject(user, id, responseComment, err) ==
  /\ nCalls < MaxCalls
  /\ nCalls' = nCalls + 1
  /\ UNCHANGED <<tables, log>>
  /\ LET code == DecidePrecondition(user, id, err)
     IN IF code # "PENDING"
        THEN /\ resp' = Response("reject", user, id, code)
             /\ UNCHANGED <<calls, clock>>
        ELSE LET validation == validation_requests[id]
             IN /\ calls' = calls \cup
                     {Call("reject", "request", clock, user, id, responseComment,
                           validation, projects[validation.project_id].status)}
                /\ clock' = clock + 1
                /\ resp' = NoResponse

\* Variant: reject applies the update of the project that approve applies.
RejectRequest_WithProjectUpdate(c, err) ==
  /\ c \in calls /\ c.op = "reject" /\ c.pc = "request"
  /\ calls' = calls \ {c}
  /\ projects' =
       [projects EXCEPT ![c.validation.project_id] =
          UpdateProject(@, ProjectUpdate(c.validation, c.project_status), c.now)]
  /\ UNCHANGED nCalls
  /\ IF err = "validation_requests"
     THEN /\ resp' = Response("reject", c.user, c.id, "DATABASE_ERROR")
          /\ UNCHANGED <<validation_requests, notifications, clock, log>>
     ELSE LET updatedValidation ==
                UpdateValidation(validation_requests[c.id], "REJECTED", c.user,
                                 c.responseComment, c.now)
          IN /\ validation_requests' = [validation_requests EXCEPT ![c.id] = updatedValidation]
             /\ log' = log \cup
                  {[table |-> "validation_requests", request |-> c.id, by |-> c.now]}
             /\ notifications' =
                  notifications \cup notifyRequester(updatedValidation, clock, FALSE, err)
             /\ clock' = clock + 1
             /\ resp' = Response("reject", c.user, c.id, "OK")

\* The update of the request to REJECTED, by id; then notifyRequester and 200.
RejectRequest(c, err) ==
  /\ c \in calls /\ c.op = "reject" /\ c.pc = "request"
  /\ calls' = calls \ {c}
  /\ UNCHANGED <<projects, nCalls>>
  /\ IF err = "validation_requests"
     THEN /\ resp' = Response("reject", c.user, c.id, "DATABASE_ERROR")
          /\ UNCHANGED <<validation_requests, notifications, clock, log>>
     ELSE LET updatedValidation ==
                UpdateValidation(validation_requests[c.id], "REJECTED", c.user,
                                 c.responseComment, c.now)
          IN /\ validation_requests' = [validation_requests EXCEPT ![c.id] = updatedValidation]
             /\ log' = log \cup
                  {[table |-> "validation_requests", request |-> c.id, by |-> c.now]}
             /\ notifications' =
                  notifications \cup notifyRequester(updatedValidation, clock, FALSE, err)
             /\ clock' = clock + 1
             /\ resp' = Response("reject", c.user, c.id, "OK")

-----------------------------------------------------------------------------
(* GET /api/validations, /pending and /:id *)

\* metadata of a response: null when the column is.
NullObject == [t |-> "null", props |-> <<>>]

\* The columns of the row under their response names; the joined project,
\* requester and approver, which no handler of this model writes, are left out.
formatValidationRequest(v) ==
  [id |-> v.id,
   type |-> v.type,
   status |-> v.status,
   projectId |-> v.project_id,
   requesterId |-> v.requester_id,
   approverId |-> v.approver_id,
   comment |-> v.comment,
   responseComment |-> v.response_comment,
   metadata |-> IF v.metadata # NullJson THEN JSONParse(v.metadata) ELSE NullObject,
   createdAt |-> v.created_at,
   updatedAt |-> v.updated_at,
   respondedAt |-> v.responded_at]

\* .order("created_at", { ascending: false }) of a set of rows.
RECURSIVE OrderByCreatedAtDesc(_)
OrderByCreatedAtDesc(rows) ==
  IF rows = {} THEN <<>>
  ELSE LET first == CHOOSE r \in rows : \A q \in rows : q.created_at <= r.created_at
       IN <<first>> \o OrderByCreatedAtDesc(rows \ {first})

\* (validations || []).map(formatValidationRequest)
FormatAll(rows) == [i \in 1..Len(rows) |-> formatValidationRequest(rows[i])]

\* A project id no query parameter gives (the parameter is absent).
NoProjectId == 0

\* Query parameters of GET /validations, each one optional.
ValidationRequestFilters ==
  [status : {Absent, "PENDING"},
   type : {Absent, "PROJECT_APPROVAL"},
   projectId : {NoProjectId, 1},
   requesterId : {Absent, "u_adm", "u_agt"}]

\* Variant: a requesterId in the query replaces the restriction of a
\* department admin.
ListQuery_FilterOverrides(user, filters) ==
  {v \in {validation_requests[i] : i \in DOMAIN validation_requests} :
     /\ filters.status # Absent => v.status = filters.status
     /\ filters.type # Absent => v.type = filters.type
     /\ filters.projectId # NoProjectId => v.project_id = filters.projectId
     /\ IF filters.requesterId # Absent THEN v.requester_id = filters.requesterId
        ELSE Users[user].role = "ADMIN_DEPARTMENT" => v.requester_id = user}

\* The rows the query of GET / selects: an .eq for each parameter given, and
\* for a department admin an .eq on requester_id besides.
ListQuery(user, filters) ==
  {v \in {validation_requests[i] : i \in DOMAIN validation_requests} :
     /\ filters.status # Absent => v.status = filters.status
     /\ filters.type # Absent => v.type = filters.type
     /\ filters.projectId # NoProjectId => v.project_id = filters.projectId
     /\ filters.requesterId # Absent => v.requester_id = filters.requesterId
     /\ Users[user].role = "ADMIN_DEPARTMENT" => v.requester_id = user}

\* GET /: one read.
List(user, filters, err) ==
  /\ nCalls < MaxCalls
  /\ nCalls' = nCalls + 1
  /\ UNCHANGED <<tables, calls, clock, log>>
  /\ resp' = IF err = "validation_requests"
             THEN Response("list", user, 0, "DATABASE_ERROR")
             ELSE DataResponse("list", user, 0,
                               FormatAll(OrderByCreatedAtDesc(ListQuery(user, filters))))

\* GET /pending: the role, then one read.
Pending(user, err) ==
  /\ nCalls < MaxCalls
  /\ nCalls' = nCalls + 1
  /\ UNCHANGED <<tables, calls, clock, log>>
  /\ resp' =
       IF Users[user].role \notin APPROVER_ROLES
       THEN Response("pending", user, 0, "FORBIDDEN")
       ELSE IF err = "validation_requests"
       THEN Response("pending", user, 0, "DATABASE_ERROR")
       ELSE DataResponse("pending", user, 0,
              FormatAll(OrderByCreatedAtDesc(
                {v \in {validation_requests[i] : i \in DOMAIN validation_requests} :
                   v.status = "PENDING"})))

\* GET /:id: one read, then the test of the requester.
Get(user, id, err) ==
  /\ nCalls < MaxCalls
  /\ nCalls' = nCalls + 1
  /\ UNCHANGED <<tables, calls, clock, log>>
  /\ resp' =
       IF err = "validation_requests" \/ id \notin DOMAIN validation_requests
       THEN Response("get", user, id, "NOT_FOUND")
       ELSE IF /\ Users[user].role = "ADMIN_DEPARTMENT"
               /\ validation_requests[id].requester_id # user
       THEN Response("get", user, id, "FORBIDDEN")
       ELSE DataResponse("get", user, id,
                         <<formatValidationRequest(validation_requests[id])>>)

-----------------------------------------------------------------------------
(* POST /api/projects *)

\* Bodies of POST /projects: the department, and a status or none.
CreateProjects ==
  [departmentId : {"d1", "d2"}, status : {Absent, "IN_PROGRESS"}, budget : {JsUndef}]

\* A department admin creates for their own department only; then the
\* insert of the project, with the status of the body if it has one.
CreateProject(user, body, err) ==
  /\ nCalls < MaxCalls
  /\ nCalls' = nCalls + 1
  /\ UNCHANGED <<validation_requests, notifications, log>>
  /\ IF /\ Users[user].role = "ADMIN_DEPARTMENT"
        /\ Users[user].department_id # body.departmentId
     THEN /\ resp' = Response("create", user, 0, "FORBIDDEN")
          /\ UNCHANGED <<projects, calls, clock>>
     ELSE IF err = "departments"
     THEN /\ resp' = Response("create", user, 0, "INVALID_DEPARTMENT")
          /\ UNCHANGED <<projects, calls, clock>>
     ELSE IF err = "projects"
     THEN /\ resp' = Response("create", user, 0, "DATABASE_ERROR")
          /\ UNCHANGED <<projects, calls, clock>>
     ELSE LET projectId == Len(projects) + 1
              project ==
                [id |-> projectId,
                 status |-> IF body.status = Absent THEN "PENDING_VALIDATION"
                            ELSE body.status,
                 budget |-> IF body.budget = JsUndef THEN JsNull ELSE body.budget,
                 department_id |-> body.departmentId,
                 updated_at |-> clock]
          IN /\ projects' = Append(projects, project)
             /\ calls' = calls \cup
                  {Call("create", "request", clock, user, projectId, Absent,
                        NewValidationRequest(
                          0, "PROJECT_APPROVAL", projectId, user,
                          "Demande d'approbation pour nouveau projet", NullJson, clock),
                        project.status)}
             /\ clock' = clock + 1
             /\ resp' = NoResponse

\* The insert of the PROJECT_APPROVAL request for the new project (its
\* error is logged), then the notifications of the active approvers
\* (whatever the insert returned) and 201.
CreateProjectRequest(c, err) ==
  /\ c \in calls /\ c.op = "create" /\ c.pc = "request"
  /\ calls' = calls \ {c}
  /\ UNCHANGED <<projects, nCalls, log>>
  /\ validation_requests' =
       IF err = "validation_requests" THEN validation_requests
       ELSE Append(validation_requests,
                   [c.validation EXCEPT !.id = Len(validation_requests) + 1])
  /\ LET approvers ==
           {u \in UserIds :
              /\ Users[u].role \in {"MINISTER", "PRIMATURE", "PRESIDENCY", "SUPER_ADMIN"}
              /\ Users[u].is_active}
     IN notifications' =
          IF err \in {"users", "notifications"} THEN notifications
          ELSE notifications \cup
                 {[id |-> <<c.now, u>>,
                   type |-> "VALIDATION_REQUEST",
                   title |-> "Nouveau projet a valider",
                   user_id |-> u,
                   link |-> 0,
                   is_read |-> FALSE,
                   created_at |-> c.now] : u \in approvers}
  /\ UNCHANGED clock
  /\ resp' = Response("create", c.user, c.id, "CREATED")

-----------------------------------------------------------------------------
(* PUT /api/projects/:id *)

\* Bodies of PUT /projects/:id: a status or a budget.
UpdateProjects ==
  {[status |-> "SUSPENDED", budget |-> JsUndef],
   [status |-> Absent, budget |-> JsNum(3)]}

\* The project must exist and a department admin must own it; then the
\* update of the columns the body has.  The fetch reads what no handler of
\* this model writes, so it is taken in the step of the update.
PutProject(user, id, body, err) ==
  /\ nCalls < MaxCalls
  /\ nCalls' = nCalls + 1
  /\ UNCHANGED <<validation_requests, notifications, calls, log>>
  /\ IF id \notin DOMAIN projects
     THEN /\ resp' = Response("update", user, id, "NOT_FOUND")
          /\ UNCHANGED <<projects, clock>>
     ELSE IF /\ Users[user].role = "ADMIN_DEPARTMENT"
             /\ Users[user].department_id # projects[id].department_id
     THEN /\ resp' = Response("update", user, id, "FORBIDDEN")
          /\ UNCHANGED <<projects, clock>>
     ELSE IF err = "projects"
     THEN /\ resp' = Response("update", user, id, "DATABASE_ERROR")
          /\ UNCHANGED <<projects, clock>>
     ELSE /\ projects' =
               [projects EXCEPT ![id] =
                  [@ EXCEPT !.status = IF body.status = Absent THEN @ ELSE body.status,
                            !.budget = IF body.budget = JsUndef THEN @ ELSE body.budget,
                            !.updated_at = clock]]
          /\ clock' = clock + 1
          /\ resp' = Response("update", user, id, "OK")

-----------------------------------------------------------------------------
(* Specifications *)

\* Ids a client may name: every row and one that does not exist.
RequestIds == 1..(Len(validation_requests) + 1)
ProjectIds == 1..(Len(projects) + 1)

\* The validations router; the store answers every call.
Next ==
  \/ \E user \in Requesters, body \in CreateValidationRequests, projectId \in ProjectIds :
       Submit(user, body, projectId, "none")
  \/ \E d \in Deciders, id \in RequestIds :
       Approve(d.user, id, d.responseComment, "none")
  \/ \E c \in calls : ApproveProject(c, "none")
  \/ \E c \in calls : ApproveRequest(c, "none")
  \/ \E d \in Deciders, id \in RequestIds :
       Reject(d.user, id, d.responseComment, "none")
  \/ \E c \in calls : RejectRequest(c, "none")

Spec == Init /\ [][Next]_vars

\* The store before any project is created through the router: the first
\* project is blocked, and projects that wait for validation are created.
InitProjects ==
  /\ Init
  /\ projects[1].status = "BLOCKED"

\* The creation of projects beside the validations router, whose requests
\* carry no metadata here.
NextProjects ==
  \/ \E user \in Requesters, body \in CreateProjects : CreateProject(user, body, "none")
  \/ \E c \in calls : CreateProjectRequest(c, "none")
  \/ \E user \in Requesters, body \in CreateValidationRequests, projectId \in ProjectIds :
       body.metadata = NoObject /\ Submit(user, body, projectId, "none")
  \/ \E d \in Deciders, id \in RequestIds :
       Approve(d.user, id, d.responseComment, "none")
  \/ \E c \in calls : ApproveProject(c, "none")
  \/ \E c \in calls : ApproveRequest(c, "none")
  \/ \E d \in Deciders, id \in RequestIds :
       Reject(d.user, id, d.responseComment, "none")
  \/ \E c \in calls : RejectRequest(c, "none")

SpecProjects == InitProjects /\ [][NextProjects]_vars

\* Bodies of POST /validations beside a failing store: every type without
\* metadata, a budget increase and a change of status.
FaultBodies ==
  {b \in CreateValidationRequests :
     b.metadata \in {NoObject,
                     JsObject(<<Prop("newBudget", JsNum(2))>>),
                     JsObject(<<Prop("newStatus", JsStr("SUSPENDED"))>>)}}

\* The minister is the caller of approve and reject beside a failing store.
FaultDeciders == {d \in Deciders : Users[d.user].role = "MINISTER"}

\* The store calls of projects and validation_requests may return an error.
StoreFaults == {"none", "projects", "validation_requests"}

NextStoreFault ==
  \/ \E user \in Requesters, body \in FaultBodies, projectId \in ProjectIds,
        err \in StoreFaults :
       Submit(user, body, projectId, err)
  \/ \E d \in FaultDeciders, id \in RequestIds, err \in StoreFaults :
       Approve(d.user, id, d.responseComment, err)
  \/ \E c \in calls, err \in StoreFaults : ApproveProject(c, err)
  \/ \E c \in calls, err \in StoreFaults : ApproveRequest(c, err)
  \/ \E d \in FaultDeciders, id \in RequestIds, err \in StoreFaults :
       Reject(d.user, id, d.responseComment, err)
  \/ \E c \in calls, err \in StoreFaults : RejectRequest(c, err)

SpecStoreFault == Init /\ [][NextStoreFault]_vars

\* The store calls of the notifier may return an error: the fetch of the
\* approvers (users) and the inserts (notifications).  The requests are a
\* project approval and a budget increase.
NotifyFaults == {"none", "users", "notifications"}

NotifyBodies ==
  {b \in FaultBodies : b.type \in {"PROJECT_APPROVAL", "BUDGET_INCREASE"}
                       /\ (b.type = "BUDGET_INCREASE" <=> b.metadata # NoObject)}

NextNotifyFault ==
  \/ \E user \in Requesters, body \in NotifyBodies, projectId \in ProjectIds,
        err \in NotifyFaults :
       Submit(user, body, projectId, err)
  \/ \E d \in FaultDeciders, id \in RequestIds :
       Approve(d.user, id, d.responseComment, "none")
  \/ \E c \in calls : ApproveProject(c, "none")
  \/ \E c \in calls, err \in NotifyFaults \ {"users"} : ApproveRequest(c, err)
  \/ \E d \in FaultDeciders, id \in RequestIds :
       Reject(d.user, id, d.responseComment, "none")
  \/ \E c \in calls, err \in NotifyFaults \ {"users"} : RejectRequest(c, err)

SpecNotifyFault == Init /\ [][NextNotifyFault]_vars

\* Approvals of requests that are guarded by the status of the project,
\* beside updates of the project.
GuardedBodies == {b \in FaultBodies : b.type \in {"PROJECT_APPROVAL", "UNBLOCK_REQUEST"}}

NextProjectUpdate ==
  \/ \E user \in Requesters, body \in GuardedBodies, projectId \in ProjectIds :
       Submit(user, body, projectId, "none")
  \/ \E d \in Deciders, id \in RequestIds :
       Approve(d.user, id, d.responseComment, "none")
  \/ \E c \in calls : ApproveProject(c, "none")
  \/ \E c \in calls : ApproveRequest(c, "none")
  \/ \E user \in Requesters, id \in ProjectIds, body \in UpdateProjects :
       PutProject(user, id, body, "none")

SpecProjectUpdate == Init /\ [][NextProjectUpdate]_vars

\* The requests of two requesters, decided by the minister and read by
\* every user.
QueryRequesters == {"u_adm", "u_agt"}

QueryBodies ==
  {b \in CreateValidationRequests :
     \/ b.type = "PROJECT_APPROVAL" /\ b.metadata = NoObject
     \/ b.type = "BUDGET_INCREASE" /\ GetProp(b.metadata, "newBudget") = JsNum(2)}

NextQueries ==
  \/ \E user \in QueryRequesters, body \in QueryBodies :
       Submit(user, body, 1, "none")
  \/ \E d \in FaultDeciders, id \in RequestIds :
       Approve(d.user, id, d.responseComment, "none")
  \/ \E c \in calls : ApproveProject(c, "none")
  \/ \E c \in calls : ApproveRequest(c, "none")
  \/ \E d \in FaultDeciders, id \in RequestIds :
       Reject(d.user, id, d.responseComment, "none")
  \/ \E c \in calls : RejectRequest(c, "none")
  \/ \E user \in UserIds, filters \in ValidationRequestFilters :
       List(user, filters, "none")
  \/ \E user \in UserIds : Pending(user, "none")
  \/ \E user \in UserIds, id \in RequestIds : Get(user, id, "none")

SpecQueries == Init /\ [][NextQueries]_vars

\* Changes of status whose newStatus is or is not a status of a project
\* (metadata is z.any()), submitted and approved.
StatusChangeBodies ==
  {[type |-> "STATUS_CHANGE", comment |-> "c",
    metadata |-> JsObject(<<Prop("newStatus", JsStr(s))>>)] :
     s \in {"COMPLETED", "ARCHIVED"}}

NextStatusChange ==
  \/ \E user \in Requesters, body \in StatusChangeBodies, projectId \in ProjectIds :
       Submit(user, body, projectId, "none")
  \/ \E d \in Deciders, id \in RequestIds :
       Approve(d.user, id, d.responseComment, "none")
  \/ \E c \in calls : ApproveProject(c, "none")
  \/ \E c \in calls : ApproveRequest(c, "none")

SpecStatusChange == Init /\ [][NextStatusChange]_vars

\* The creation of projects while the insert of the implicit request may
\* return an error, beside the approval of the requests made.
CreateFaults == {"none", "validation_requests"}

NextCreateFault ==
  \/ \E user \in Requesters, body \in CreateProjects : CreateProject(user, body, "none")
  \/ \E c \in calls, err \in CreateFaults : CreateProjectRequest(c, err)
  \/ \E d \in FaultDeciders, id \in RequestIds :
       Approve(d.user, id, d.responseComment, "none")
  \/ \E c \in calls : ApproveProject(c, "none")
  \/ \E c \in calls : ApproveRequest(c, "none")

SpecCreateFault == InitProjects /\ [][NextCreateFault]_vars

-----------------------------------------------------------------------------
(* Vocabulary of the properties *)

\* The roles the design lets decide a request.
DecidingRoles == {"MINISTER", "PRIMATURE", "PRESIDENCY", "SUPER_ADMIN"}

IsDecide(op) == op \in {"approve", "reject"}

\* This step invokes a handler; it also returns in this step if resp' says so.
Begins == nCalls' = nCalls + 1

\* This step invokes a handler that stays suspended: the new call.
Started == IF Begins THEN calls' \ calls ELSE {}

\* This step is the next store call of the suspended handler c.
Stepping(c) == c \in calls /\ c \notin calls'

\* The successful writes of one table made on behalf of request id.
WritesFor(table, id) == {e \in log : e.table = table /\ e.request = id}

\* The write of the projects row the call c made.
ProjectWriteOf(c) == [table |-> "projects", request |-> c.id, by |-> c.now]

\* metadata.newBudget and metadata.newStatus of a stored request, undefined
\* when the request has no metadata.
NewBudgetOf(validation) ==
  IF validation.metadata = NullJson THEN JsUndef
  ELSE GetProp(JSONParse(validation.metadata), "newBudget")

NewStatusOf(validation) ==
  IF validation.metadata = NullJson THEN JsUndef
  ELSE GetProp(JSONParse(validation.metadata), "newStatus")

-----------------------------------------------------------------------------
(* Properties *)

\* C1: a request is created with status PENDING, and its status changes only
\* from PENDING, to APPROVED or to REJECTED; a decided request keeps its status.
C1_StatusChangesOnce ==
  [][/\ \A id \in DOMAIN validation_requests' \ DOMAIN validation_requests :
          validation_requests'[id].status = "PENDING"
     /\ \A id \in DOMAIN validation_requests :
          validation_requests'[id].status # validation_requests[id].status
            => /\ validation_requests[id].status = "PENDING"
               /\ validation_requests'[id].status \in {"APPROVED", "REJECTED"}]_vars

\* C2: the transition write of approve and reject is conditioned on the status
\* being PENDING: a call that reaches its write after another call decided the
\* request gets ALREADY_PROCESSED and leaves the request as the winner wrote it.
C2_TransitionIsCompareAndSwap ==
  [][\A c \in calls :
       (/\ Stepping(c) /\ IsDecide(c.op) /\ c.pc = "request"
        /\ validation_requests[c.id].status # "PENDING")
         => /\ resp'.code = "ALREADY_PROCESSED"
            /\ validation_requests' = validation_requests]_vars

\* C3: over the life of a request the project is written on its behalf at
\* most once.
C3_SideEffectAtMostOnce ==
  \A id \in DOMAIN validation_requests : Cardinality(WritesFor("projects", id)) <= 1

\* C4: approve or reject by an approver on a request that is stored as
\* APPROVED or REJECTED returns ALREADY_PROCESSED in the step that reads it,
\* writes no table, and the handler does not go on to its writes.
C4_AlreadyProcessed ==
  [][/\ \A c \in Started :
          IsDecide(c.op) => validation_requests[c.id].status = "PENDING"
     /\ (/\ Begins /\ IsDecide(resp'.op)
         /\ Users[resp'.user].role \in DecidingRoles
         /\ resp'.id \in DOMAIN validation_requests
         /\ validation_requests[resp'.id].status # "PENDING")
          => /\ resp'.code = "ALREADY_PROCESSED"
             /\ UNCHANGED tables]_vars

C4_Witness ==
  /\ resp.code = "ALREADY_PROCESSED" /\ resp.op = "reject"
  /\ Users[resp.user].role \in DecidingRoles
  /\ validation_requests[resp.id].status = "APPROVED"

\* C5: approve or reject by an actor whose role is not a deciding role returns
\* FORBIDDEN, writes no table and does not go on; so the approver_id of every
\* decided request is a user with a deciding role.
C5_OnlyApproversDecide ==
  /\ [](\A id \in DOMAIN validation_requests :
          validation_requests[id].status # "PENDING"
            => /\ validation_requests[id].approver_id \in UserIds
               /\ Users[validation_requests[id].approver_id].role \in DecidingRoles)
  /\ [][/\ \A c \in Started : IsDecide(c.op) => Users[c.user].role \in DecidingRoles
        /\ (/\ Begins /\ IsDecide(resp'.op)
            /\ Users[resp'.user].role \notin DecidingRoles)
             => /\ resp'.code = "FORBIDDEN"
                /\ UNCHANGED tables]_vars

C5_Witness ==
  /\ resp.code = "FORBIDDEN" /\ IsDecide(resp.op)
  /\ Users[resp.user].role \in {"ADMIN_DEPARTMENT", "AGENT"}
  /\ resp.id \in DOMAIN validation_requests
  /\ validation_requests[resp.id].status = "APPROVED"
  /\ Users[validation_requests[resp.id].approver_id].role \in DecidingRoles

\* C6: approve and reject check the role first (FORBIDDEN), then that the
\* request exists (NOT_FOUND), then that it is PENDING (ALREADY_PROCESSED):
\* the response of the step that makes the checks is the first that fails.
C6_PreconditionOrder ==
  [][(Begins /\ IsDecide(resp'.op))
       => IF Users[resp'.user].role \notin DecidingRoles
          THEN resp'.code = "FORBIDDEN"
          ELSE IF resp'.id \notin DOMAIN validation_requests
          THEN resp'.code = "NOT_FOUND"
          ELSE /\ resp'.code = "ALREADY_PROCESSED"
               /\ validation_requests[resp'.id].status # "PENDING"]_vars

C6_Witness ==
  /\ resp.code = "FORBIDDEN" /\ IsDecide(resp.op)
  /\ resp.id \notin DOMAIN validation_requests
  /\ \E id \in DOMAIN validation_requests : validation_requests[id].status # "PENDING"

\* C7: approver_id and responded_at are set exactly when the status is not
\* PENDING: a row as POST /validations or POST /projects inserts it has both
\* null, and the write of approve or reject sets the status, approver_id to
\* the actor of that call and responded_at to the time that call took.
C7_DecisionFieldsSetTogether ==
  /\ [](\A id \in DOMAIN validation_requests :
          LET r == validation_requests[id]
          IN /\ (r.status = "PENDING") <=> (r.approver_id = NullText)
             /\ (r.status = "PENDING") <=> (r.responded_at = NullTime))
  /\ [][\A c \in calls :
          (Stepping(c) /\ IsDecide(c.op) /\ c.pc = "request")
            => LET r == validation_requests'[c.id]
               IN /\ r.status = IF c.op = "approve" THEN "APPROVED" ELSE "REJECTED"
                  /\ r.approver_id = c.user
                  /\ r.responded_at = c.now]_vars

C7_Witness ==
  \E i, j \in DOMAIN validation_requests :
    /\ validation_requests[i].comment = "Demande d'approbation pour nouveau projet"
    /\ validation_requests[i].status = "PENDING"
    /\ validation_requests[i].approver_id = NullText
    /\ validation_requests[j].comment = "c"
    /\ validation_requests[j].status = "REJECTED"
    /\ validation_requests[j].approver_id = "u_sup"
    /\ validation_requests[j].responded_at # NullTime

\* The guard of a guarded type held when approve fetched the request.
GuardHeld(c) ==
  \/ c.validation.type = "PROJECT_APPROVAL" /\ c.project_status = "PENDING_VALIDATION"
  \/ c.validation.type = "UNBLOCK_REQUEST" /\ c.project_status = "BLOCKED"

\* C8: approve of a PENDING PROJECT_APPROVAL whose project is stored as
\* PENDING_VALIDATION, or of a PENDING UNBLOCK_REQUEST whose project is stored
\* as BLOCKED, writes IN_PROGRESS to the status of the project, then APPROVED
\* to the request, and returns 200.
C8_GuardedApprovalStartsProject ==
  /\ [](\A c \in calls :
          (c.op = "approve" /\ GuardHeld(c) /\ c.pc # "project")
            => ProjectWriteOf(c) \in log)
  /\ [][/\ \A c \in Started :
             c.op = "approve"
               => /\ c.validation = validation_requests[c.id]
                  /\ c.project_status = projects[c.validation.project_id].status
        /\ \A c \in calls :
             (Stepping(c) /\ c.op = "approve" /\ GuardHeld(c))
               => IF c.pc = "project"
                  THEN /\ projects'[c.validation.project_id].status = "IN_PROGRESS"
                       /\ ProjectWriteOf(c) \in log'
                  ELSE /\ validation_requests'[c.id].status = "APPROVED"
                       /\ resp' = Response("approve", c.user, c.id, "OK")]_vars

C8_Witness ==
  /\ resp.code = "OK" /\ resp.op = "approve"
  /\ validation_requests[resp.id].type = "UNBLOCK_REQUEST"
  /\ validation_requests[resp.id].status = "APPROVED"
  /\ projects[validation_requests[resp.id].project_id].status = "IN_PROGRESS"
  /\ WritesFor("projects", resp.id) # {}

\* The condition of the request's type did not hold when approve fetched it.
Stale(c) ==
  \/ c.validation.type = "PROJECT_APPROVAL" /\ c.project_status # "PENDING_VALIDATION"
  \/ c.validation.type = "UNBLOCK_REQUEST" /\ c.project_status # "BLOCKED"
  \/ c.validation.type = "BUDGET_INCREASE" /\ NewBudgetOf(c.validation) = JsUndef
  \/ c.validation.type = "STATUS_CHANGE" /\ NewStatusOf(c.validation) = JsUndef

\* C9: approve of a request whose condition does not hold makes no write of
\* the project, writes APPROVED to the request and returns 200: no step of
\* the call changes the status or the budget of any project.
C9_StaleApprovalSkipsProject ==
  /\ [](\A c \in calls :
          (c.op = "approve" /\ Stale(c))
            => c.pc = "request" /\ ProjectWriteOf(c) \notin log)
  /\ [][\A c \in calls :
          (Stepping(c) /\ c.op = "approve" /\ Stale(c))
            => /\ projects' = projects
               /\ validation_requests'[c.id].status = "APPROVED"
               /\ resp' = Response("approve", c.user, c.id, "OK")]_vars

C9_Witness ==
  /\ resp.code = "OK" /\ resp.op = "approve"
  /\ validation_requests[resp.id].type = "BUDGET_INCREASE"
  /\ validation_requests[resp.id].metadata # NullJson
  /\ NewBudgetOf(validation_requests[resp.id]) = JsUndef
  /\ validation_requests[resp.id].status = "APPROVED"
  /\ projects[validation_requests[resp.id].project_id].budget = InitialBudget
  /\ WritesFor("projects", resp.id) = {}

\* C10: approve of a PENDING BUDGET_INCREASE whose metadata has newBudget = b
\* writes b, 0 included, to the budget of the project; no step of a reject
\* changes a project.
C10_BudgetIncrease ==
  /\ [](\A c \in calls :
          (/\ c.op = "approve" /\ c.validation.type = "BUDGET_INCREASE"
           /\ NewBudgetOf(c.validation) # JsUndef /\ c.pc # "project")
            => ProjectWriteOf(c) \in log)
  /\ [][\A c \in calls :
          Stepping(c)
            => /\ (/\ c.op = "approve" /\ c.validation.type = "BUDGET_INCREASE"
                   /\ NewBudgetOf(c.validation) # JsUndef /\ c.pc = "project")
                    => /\ projects'[c.validation.project_id].budget
                            = NewBudgetOf(c.validation)
                       /\ ProjectWriteOf(c) \in log'
               /\ c.op = "reject" => projects' = projects]_vars

C10_Witness ==
  /\ resp.code = "OK" /\ resp.op = "approve"
  /\ validation_requests[resp.id].type = "BUDGET_INCREASE"
  /\ NewBudgetOf(validation_requests[resp.id]) = JsNum(0)
  /\ validation_requests[resp.id].status = "APPROVED"
  /\ projects[validation_requests[resp.id].project_id].budget = JsNum(0)
  /\ WritesFor("projects", resp.id) # {}

\* C11: approve of a PENDING STATUS_CHANGE whose metadata has newStatus = s,
\* a project status, writes s to the status of the project whatever status
\* the project had.
C11_StatusChange ==
  /\ [](\A c \in calls :
          (/\ c.op = "approve" /\ c.validation.type = "STATUS_CHANGE"
           /\ NewStatusOf(c.validation).s \in ProjectStatus /\ c.pc # "project")
            => ProjectWriteOf(c) \in log)
  /\ [][\A c \in calls :
          (/\ Stepping(c) /\ c.op = "approve" /\ c.validation.type = "STATUS_CHANGE"
           /\ NewStatusOf(c.validation).s \in ProjectStatus /\ c.pc = "project")
            => /\ projects'[c.validation.project_id].status = NewStatusOf(c.validation).s
               /\ ProjectWriteOf(c) \in log']_vars

C11_Witness ==
  /\ resp.code = "OK" /\ resp.op = "approve" /\ Users[resp.user].role = "MINISTER"
  /\ validation_requests[resp.id].type = "STATUS_CHANGE"
  /\ Users[validation_requests[resp.id].requester_id].role = "ADMIN_DEPARTMENT"
  /\ NewStatusOf(validation_requests[resp.id]) = JsStr("SUSPENDED")
  /\ validation_requests[resp.id].status = "APPROVED"
  /\ projects[validation_requests[resp.id].project_id].status = "SUSPENDED"
  /\ WritesFor("projects", resp.id) # {}

\* C12: no step of a reject call changes a project, whatever the type and
\* the metadata of the request and whatever the call returns (200, 403, 404,
\* 400, or 500 when the update of the request fails).
C12_RejectLeavesProjects ==
  [][(\/ Begins /\ resp'.op = "reject"
      \/ \E c \in Started : c.op = "reject"
      \/ \E c \in calls : Stepping(c) /\ c.op = "reject")
       => projects' = projects]_vars

C12_Witness ==
  /\ resp.op = "reject" /\ resp.code = "OK"
  /\ validation_requests[resp.id].type = "STATUS_CHANGE"
  /\ NewStatusOf(validation_requests[resp.id]) = JsStr("SUSPENDED")
  /\ validation_requests[resp.id].status = "REJECTED"
  /\ projects[validation_requests[resp.id].project_id].status # "SUSPENDED"
  /\ WritesFor("projects", resp.id) = {}

\* C13: a project is written on behalf of a request only by an approve call
\* that also writes APPROVED to the request: once the call has ended, both
\* writes were made or neither.
C13_EffectOnlyWithApproval ==
  \A e \in log :
    e.table = "projects"
      => \/ \E c \in calls : c.op = "approve" /\ c.id = e.request /\ c.now = e.by
         \/ [table |-> "validation_requests", request |-> e.request, by |-> e.by] \in log

\* C14: when the update of the project that the type asks for has failed,
\* approve returns DATABASE_ERROR and does not write APPROVED to the request.
C14_ProjectWriteFailureSurfaces ==
  [][\A c \in calls :
       (/\ Stepping(c) /\ c.op = "approve" /\ c.pc = "request"
        /\ ProjectUpdate(c.validation, c.project_status) # NoUpdate
        /\ ProjectWriteOf(c) \notin log)
         => /\ resp' = Response("approve", c.user, c.id, "DATABASE_ERROR")
            /\ validation_requests' = validation_requests]_vars

\* C15: the write of IN_PROGRESS by the approval of a PROJECT_APPROVAL (of an
\* UNBLOCK_REQUEST) leaves the status of a project that is no longer stored
\* as PENDING_VALIDATION (as BLOCKED) when the write is made.
C15_ProjectWriteIsConditional ==
  [][\A c \in calls :
       (/\ Stepping(c) /\ c.op = "approve" /\ c.pc = "project"
        /\ \/ /\ c.validation.type = "PROJECT_APPROVAL"
              /\ projects[c.validation.project_id].status # "PENDING_VALIDATION"
           \/ /\ c.validation.type = "UNBLOCK_REQUEST"
              /\ projects[c.validation.project_id].status # "BLOCKED")
         => projects'[c.validation.project_id].status
              = projects[c.validation.project_id].status]_vars

\* C16: a step of an approve call changes no project but the one of the
\* request, and of that one the budget only for a BUDGET_INCREASE and the
\* status only for the other types.
C16_NarrowProjectWrite ==
  [][/\ (Begins /\ (resp'.op = "approve" \/ \E c \in Started : c.op = "approve"))
          => projects' = projects
     /\ \A c \in calls :
          (Stepping(c) /\ c.op = "approve")
            => LET pid == c.validation.project_id
               IN /\ \A p \in DOMAIN projects : p # pid => projects'[p] = projects[p]
                  /\ DOMAIN projects' = DOMAIN projects
                  /\ c.validation.type = "BUDGET_INCREASE"
                       => projects'[pid].status = projects[pid].status
                  /\ c.validation.type # "BUDGET_INCREASE"
                       => projects'[pid].budget = projects[pid].budget]_vars

C16_Witness ==
  /\ resp.code = "OK" /\ resp.op = "approve"
  /\ validation_requests[resp.id].type = "BUDGET_INCREASE"
  /\ projects[1].budget = JsNum(2)
  /\ projects[1].status = "BLOCKED"
  /\ projects[2].budget = InitialBudget /\ projects[2].updated_at = NullTime

\* C17: POST /validations for a project that does not exist returns
\* NOT_FOUND, and by a department admin for a project of another department
\* FORBIDDEN; both write no table.  A row it inserts for a department admin
\* is for a project of the admin's department.
C17_SubmitPreconditions ==
  [][/\ (Begins /\ resp'.op = "submit")
          => IF resp'.id \notin DOMAIN projects
             THEN resp'.code = "NOT_FOUND" /\ UNCHANGED tables
             ELSE IF /\ Users[resp'.user].role = "ADMIN_DEPARTMENT"
                     /\ Users[resp'.user].department_id # projects[resp'.id].department_id
             THEN resp'.code = "FORBIDDEN" /\ UNCHANGED tables
             ELSE resp'.code = "CREATED"
     /\ \A id \in DOMAIN validation_requests' \ DOMAIN validation_requests :
          LET r == validation_requests'[id]
          IN Users[r.requester_id].role = "ADMIN_DEPARTMENT"
               => Users[r.requester_id].department_id = projects[r.project_id].department_id]_vars

C17_Witness ==
  /\ resp.op = "submit" /\ resp.code = "FORBIDDEN" /\ resp.id = 2
  /\ Users[resp.user].role = "ADMIN_DEPARTMENT"
  /\ Len(validation_requests) = 1
  /\ \A n \in notifications : n.link = 1

\* C18: a POST /validations that returns 201 inserts one VALIDATION_REQUEST
\* notification that links to the new request for each active user with a
\* deciding role, and no other notification.
C18_ApproversNotified ==
  [][(Begins /\ resp'.op = "submit" /\ resp'.code = "CREATED")
       => LET id == Len(validation_requests')
              new == notifications' \ notifications
          IN /\ id = Len(validation_requests) + 1
             /\ \A n \in new : n.type = "VALIDATION_REQUEST" /\ n.link = id
             /\ \A u \in UserIds :
                  Cardinality({n \in new : n.user_id = u})
                    = IF Users[u].is_active /\ Users[u].role \in DecidingRoles
                      THEN 1 ELSE 0]_vars

C18_Witness ==
  /\ resp.op = "submit" /\ resp.code = "CREATED"
  /\ Len(validation_requests) = 2
  /\ Cardinality({n \in notifications : n.user_id = "u_min" /\ n.link = 2}) = 1
  /\ \A n \in notifications : n.user_id = "u_min"

\* C19: whatever the notifier's store calls return, a POST /validations
\* that passes its checks inserts the PENDING request and returns 201, and
\* the request update of approve or reject writes the decision, returns 200
\* and leaves the projects, the write made for the request included.
C19_NotifyFailureSwallowed ==
  [][/\ (/\ Begins /\ resp'.op = "submit"
         /\ resp'.id \in DOMAIN projects
         /\ Users[resp'.user].department_id = projects[resp'.id].department_id)
          => /\ resp'.code = "CREATED"
             /\ Len(validation_requests') = Len(validation_requests) + 1
             /\ validation_requests'[Len(validation_requests')].status = "PENDING"
     /\ \A c \in calls :
          (Stepping(c) /\ IsDecide(c.op) /\ c.pc = "request")
            => /\ resp' = Response(c.op, c.user, c.id, "OK")
               /\ validation_requests'[c.id].status
                    = IF c.op = "approve" THEN "APPROVED" ELSE "REJECTED"
               /\ projects' = projects
               /\ WritesFor("projects", c.id) \subseteq log']_vars

C19_Witness ==
  /\ resp.op = "approve" /\ resp.code = "OK"
  /\ validation_requests[resp.id].type = "BUDGET_INCREASE"
  /\ validation_requests[resp.id].status = "APPROVED"
  /\ projects[validation_requests[resp.id].project_id].budget = JsNum(2)
  /\ WritesFor("projects", resp.id) # {}
  /\ notifications = {}

\* C20: a VALIDATION_REQUEST notification is inserted only by the step that
\* has inserted the request it links to, a VALIDATION_RESPONSE notification
\* only by the step that has written the decision of the request it links
\* to, and a step that returns DATABASE_ERROR inserts no notification.
C20_NotifyAfterCommit ==
  [][/\ \A n \in notifications' \ notifications :
          /\ n.type = "VALIDATION_REQUEST"
               => /\ n.link \in DOMAIN validation_requests' \ DOMAIN validation_requests
                  /\ resp'.op = "submit" /\ resp'.code = "CREATED"
          /\ n.type = "VALIDATION_RESPONSE"
               => /\ n.link \in DOMAIN validation_requests
                  /\ validation_requests'[n.link].status # "PENDING"
                  /\ \E e \in log' \ log :
                       e.table = "validation_requests" /\ e.request = n.link
                  /\ IsDecide(resp'.op) /\ resp'.code = "OK"
     /\ resp'.code = "DATABASE_ERROR" => notifications' = notifications]_vars

C20_Witness ==
  /\ resp.op = "approve" /\ resp.code = "DATABASE_ERROR"
  /\ validation_requests[resp.id].status = "PENDING"
  /\ \E n \in notifications : n.type = "VALIDATION_REQUEST" /\ n.link = resp.id
  /\ \A n \in notifications : n.type # "VALIDATION_RESPONSE"

\* C21: the step in which approve or reject returns 200 inserts one
\* notification: a VALIDATION_RESPONSE for the requester of the request that
\* links to the request, and none for any other user.
C21_RequesterNotified ==
  [][\A c \in calls :
       (Stepping(c) /\ IsDecide(c.op) /\ resp' = Response(c.op, c.user, c.id, "OK"))
         => LET new == notifications' \ notifications
            IN /\ Cardinality(new) = 1
               /\ \A n \in new :
                    /\ n.type = "VALIDATION_RESPONSE"
                    /\ n.user_id = validation_requests[c.id].requester_id
                    /\ n.link = c.id
                    /\ n.title = IF c.op = "approve" THEN "Demande approuvee"
                                 ELSE "Demande rejetee"]_vars

C21_Witness ==
  /\ resp.op = "reject" /\ resp.code = "OK"
  /\ validation_requests[resp.id].status = "REJECTED"
  /\ \E n \in notifications :
       /\ n.type = "VALIDATION_RESPONSE" /\ n.link = resp.id
       /\ n.user_id = validation_requests[resp.id].requester_id
       /\ n.title = "Demande rejetee"
  /\ \A n \in notifications :
       n.type = "VALIDATION_RESPONSE" => n.user_id = validation_requests[resp.id].requester_id

\* C22: whatever the query parameters, a requesterId of another user
\* included, the list a department admin gets holds only requests whose
\* requester the admin is.
C22_AdminListsOwnRequests ==
  [][(/\ Begins /\ resp'.op = "list" /\ resp'.code = "OK"
      /\ Users[resp'.user].role = "ADMIN_DEPARTMENT")
       => /\ \A i \in 1..Len(resp'.data) : resp'.data[i].requesterId = resp'.user
          /\ \A filters \in ValidationRequestFilters :
               \A v \in ListQuery(resp'.user, filters) : v.requester_id = resp'.user]_vars

\* A department admin has listed requests and got one, while the table also
\* holds a request of another requester.
C22_Witness ==
  /\ resp.op = "list" /\ resp.code = "OK"
  /\ Users[resp.user].role = "ADMIN_DEPARTMENT"
  /\ Len(resp.data) > 0
  /\ \E id \in DOMAIN validation_requests :
       validation_requests[id].requester_id # resp.user

\* C23: GET /pending called by a user who is no approver succeeds with an
\* empty list and is never an error.
C23_PendingEmptyForNonApprover ==
  [][(/\ Begins /\ resp'.op = "pending"
      /\ Users[resp'.user].role \notin DecidingRoles)
       => resp'.code = "OK" /\ resp'.data = <<>>]_vars

\* C26: no step removes a request or changes the id, type, project,
\* requester, comment, metadata or creation time of one, and a step changes
\* a request only as a store call of an approve or reject addressed to it.
C26_RequestFieldsImmutable ==
  [][\A id \in DOMAIN validation_requests :
       /\ id \in DOMAIN validation_requests'
       /\ validation_requests'[id].id = validation_requests[id].id
       /\ validation_requests'[id].type = validation_requests[id].type
       /\ validation_requests'[id].project_id = validation_requests[id].project_id
       /\ validation_requests'[id].requester_id = validation_requests[id].requester_id
       /\ validation_requests'[id].comment = validation_requests[id].comment
       /\ validation_requests'[id].metadata = validation_requests[id].metadata
       /\ validation_requests'[id].created_at = validation_requests[id].created_at
       /\ validation_requests'[id] # validation_requests[id]
            => \E c \in calls : Stepping(c) /\ IsDecide(c.op) /\ c.id = id]_vars

\* A request with metadata has been approved with a response comment beside
\* a request that is still pending; both keep what Submit stored.
C26_Witness ==
  /\ resp.op = "approve" /\ resp.code = "OK"
  /\ validation_requests[resp.id].status = "APPROVED"
  /\ validation_requests[resp.id].response_comment = "ok"
  /\ validation_requests[resp.id].comment = "c"
  /\ validation_requests[resp.id].metadata # NullJson
  /\ \E id \in DOMAIN validation_requests :
       id # resp.id /\ validation_requests[id].status = "PENDING"

\* C24: when POST /projects returns 201, the new project has the status
\* PENDING_VALIDATION and a pending PROJECT_APPROVAL request of the creator
\* exists for it, whatever the body.
C24_CreatedProjectAwaitsValidation ==
  [][\A c \in calls :
       (Stepping(c) /\ c.op = "create" /\ resp'.code = "CREATED")
         => /\ projects'[c.id].status = "PENDING_VALIDATION"
            /\ \E id \in DOMAIN validation_requests' :
                 /\ validation_requests'[id].type = "PROJECT_APPROVAL"
                 /\ validation_requests'[id].status = "PENDING"
                 /\ validation_requests'[id].project_id = c.id
                 /\ validation_requests'[id].requester_id = c.user]_vars

\* C25: every stored BUDGET_INCREASE request has a metadata.newBudget and
\* every stored STATUS_CHANGE request a metadata.newStatus.
C25_PayloadPresent ==
  \A id \in DOMAIN validation_requests :
    /\ validation_requests[id].type = "BUDGET_INCREASE"
         => NewBudgetOf(validation_requests[id]) # JsUndef
    /\ validation_requests[id].type = "STATUS_CHANGE"
         => NewStatusOf(validation_requests[id]) # JsUndef

\* C27: the status of every project is a member of ProjectStatus.
C27_ProjectStatusInEnum ==
  \A id \in DOMAIN projects : projects[id].status \in ProjectStatus

\* C28: a request has at most one VALIDATION_RESPONSE notification, and the
\* outcome it tells is the status of the request.
C28_OneResponseNotification ==
  \A id \in DOMAIN validation_requests :
    LET sent == {n \in notifications :
                   n.type = "VALIDATION_RESPONSE" /\ n.link = id}
    IN /\ Cardinality(sent) <= 1
       /\ \A n \in sent :
            validation_requests[id].status =
              (IF n.title = "Demande approuvee" THEN "APPROVED" ELSE "REJECTED")

\* C29: no write of a project was ever made on behalf of a request whose
\* status is REJECTED.
C29_RejectedNeverWroteProject ==
  \A id \in DOMAIN validation_requests :
    validation_requests[id].status = "REJECTED" => WritesFor("projects", id) = {}

\* C30: POST /projects inserts VALIDATION_REQUEST notifications only in a
\* step that has inserted the PROJECT_APPROVAL request.
C30_NotifiedOnlyWithRequest ==
  [][\A c \in calls :
       (Stepping(c) /\ c.op = "create" /\ notifications' # notifications)
         => /\ Len(validation_requests') = Len(validation_requests) + 1
            /\ validation_requests'[Len(validation_requests')].project_id = c.id]_vars

====
